---- MODULE Spec2Model ----
(***************************************************************************)
(* Fleet command execution of the Ambari MCP server: the remote executor   *)
(* (executeRemoteCommand over ssh2, executeInPod over kubectl exec) and    *)
(* the batch runner (executeRemoteCommandOnHosts, executeInPods).          *)
(*                                                                         *)
(* One behaviour is one call of the batch runner.  JavaScript runs every   *)
(* callback to completion, so each action below is one callback, or the    *)
(* synchronous stretch of the batch runner between two awaits.             *)
(***************************************************************************)
EXTENDS Integers, Sequences, FiniteSets, TLC

\* ------------------------------------------------------------------ bounds
MaxHosts == 3          \* longest endpoint list tried
MaxConcurrency == 2    \* largest explicit options.concurrency tried
MaxData == 1           \* data chunks one command may emit
MaxOptHosts == 2       \* longest endpoint list run with explicit timeout / key

\* ------------------------------------------------------- program constants
DefaultConcurrency == 5
DefaultSshTimeout == 10000
DefaultK8sTimeout == 30000

\* exitCode: number | null; null is written -1, outside the exit codes 0..255
Null == 0 - 1
ExitCodes == {0, 1}

\* the absent optional `error` field, and a promise that is still pending
NoError == << >>
NoResult == [pending |-> TRUE]

Backends == {"ssh", "k8s"}
HostNames == <<"h1", "h2", "h3", "h4", "h5">>
TimeoutOptions == {0, 2000}          \* 0: options.timeout not given
KeyPathOptions == {"", "/opt/key"}   \* "": options.privateKeyPath not given
EnvKeyPaths == {"", "/env/key"}      \* "": SSH_PRIVATE_KEY_PATH not set
Paths == {"/opt/key", "/env/key"}
FileStates == {"missing", "unreadable", "ok"}
Messages == {"ECONNREFUSED"}         \* err.message of a transport error
Chunks == {<<"o", " ">>}             \* one chunk of output, ending in whitespace

Min(a, b) == IF a < b THEN a ELSE b

\* ------------------------------------------------------------ strings
IsSpace(ch) == ch = " "

RECURSIVE TrimStart(_)
TrimStart(s) ==
  IF s # << >> /\ IsSpace(Head(s)) THEN TrimStart(Tail(s)) ELSE s

RECURSIVE TrimEnd(_)
TrimEnd(s) ==
  IF s # << >> /\ IsSpace(s[Len(s)]) THEN TrimEnd(SubSeq(s, 1, Len(s) - 1)) ELSE s

\* String.prototype.trim
Trim(s) == TrimEnd(TrimStart(s))

\* String.prototype.includes, on token sequences
Includes(s, t) ==
  \E k \in 0..(Len(s) - Len(t)) : SubSeq(s, k + 1, k + Len(t)) = t

\* ------------------------------------------------------------ inputs, state
VARIABLES
  backend,         \* which executor the batch runner drives
  hosts,           \* hosts / podNames: the endpoint list
  optConcurrency,  \* options.concurrency, 0 when not given
  optTimeout,      \* options.timeout, 0 when not given
  optKeyPath,      \* options.privateKeyPath, "" when not given
  pc,              \* batch runner: "start", "await" (in Promise.all), "done"
  concurrency,     \* const concurrency
  i,               \* loop variable i
  results,         \* results
  windows,         \* the batches sliced so far, in order
  calls,           \* calls[k]: the execute call for hosts[k]
  reordered        \* some call settled before an earlier call of its window

\* the tool executors of ssh-tools.ts / k8s-tools.ts (one invocation)
VARIABLES
  tool,            \* which command tool was invoked
  isConfigured,    \* isSshConfigured() / isK8sConfigured() of the invocation
  hostsArg,        \* args.hosts / args.pods: fields between commas, or Undefined
  waitArg,         \* args.waitTimeSeconds, 0 when not given
  wpc,             \* executor: the await it is suspended in, or its end
  hostnameMap,     \* hostnameMap: the pods whose hostname is known
  beforeHeartbeats,\* beforeHeartbeats
  bi,              \* baseline loop: index of the target being fetched
  restartResults,  \* restartResults
  restartedHosts,  \* restartedHosts / restartedPods
  failedRestarts,  \* failedRestarts
  startTime,       \* startTime
  endTime,         \* endTime
  now,             \* Date.now()
  reregistered,    \* reregistered
  pending,         \* pending, in insertion order
  scan,            \* Array.from(pending) of the running tick
  si,              \* tick: index into scan of the endpoint being fetched
  hostInfo,        \* hostInfo: the response of the last health fetch
  ret,             \* the value returned or the error thrown
  contacted,       \* what the executor has called so far
  ticks            \* polling iterations begun

tracker == <<tool, isConfigured, hostsArg, waitArg, wpc, hostnameMap,
             beforeHeartbeats, bi, restartResults, restartedHosts,
             failedRestarts, startTime, endTime, now, reregistered, pending,
             scan, si, hostInfo, ret, contacted, ticks>>

vars == <<backend, hosts, optConcurrency, optTimeout, optKeyPath, pc,
          concurrency, i, results, windows, calls, reordered, tracker>>

inputs == <<backend, hosts, optConcurrency, optTimeout, optKeyPath>>

\* an optional argument that was not given, no response yet, no outcome yet
Undefined == [given |-> FALSE, text |-> << >>]
NoResponse == [kind |-> "none"]
NoReturn == [kind |-> "none"]

\* no tool executor is running
TrackerIdle ==
  /\ tool = "none"
  /\ isConfigured = FALSE
  /\ hostsArg = Undefined
  /\ waitArg = 0
  /\ wpc = "idle"
  /\ hostnameMap = {}
  /\ beforeHeartbeats = << >>
  /\ bi = 0
  /\ restartResults = << >>
  /\ restartedHosts = << >>
  /\ failedRestarts = << >>
  /\ startTime = 0
  /\ endTime = 0
  /\ now = 0
  /\ reregistered = << >>
  /\ pending = << >>
  /\ scan = << >>
  /\ si = 0
  /\ hostInfo = NoResponse
  /\ ret = NoReturn
  /\ contacted = {}
  /\ ticks = 0

\* ------------------------------------------------------------ CommandResult
SshResult(host, success, stdout, stderr, exitCode, error) ==
  [host |-> host, success |-> success, stdout |-> stdout, stderr |-> stderr,
   exitCode |-> exitCode, error |-> error]

K8sResult(pod, success, stdout, stderr, exitCode, error) ==
  [pod |-> pod, success |-> success, stdout |-> stdout, stderr |-> stderr,
   exitCode |-> exitCode, error |-> error]

NoKeyMessage ==
  <<"SSH private key not configured. Set SSH_PRIVATE_KEY_PATH in .env file.">>

NoKeyResult(host) == SshResult(host, FALSE, << >>, << >>, Null, NoKeyMessage)

ReadFailResult(host, msg) ==
  SshResult(host, FALSE, << >>, << >>, Null,
            <<"Failed to read private key file: ", msg>>)

SshTimeoutResult(host, stdout, stderr, timeout) ==
  SshResult(host, FALSE, stdout, stderr, Null,
            <<"Connection ", "timed out after ", ToString(timeout), "ms">>)

ExecFailResult(host, msg) ==
  SshResult(host, FALSE, << >>, << >>, Null,
            <<"Command execution failed: ", msg>>)

\* mutant: the close handler reports success whatever the exit code
SshCloseResultAlwaysSuccess(host, code, stdout, stderr) ==
  SshResult(host, TRUE, Trim(stdout), Trim(stderr), code, NoError)

SshCloseResult(host, code, stdout, stderr) ==
  SshResult(host, code = 0, Trim(stdout), Trim(stderr), code, NoError)

SshErrorResult(host, msg) ==
  SshResult(host, FALSE, << >>, << >>, Null, <<"SSH connection error: ", msg>>)

K8sTimeoutResult(pod, stdout, stderr, timeout) ==
  K8sResult(pod, FALSE, stdout, stderr, Null,
            <<"Command ", "timed out after ", ToString(timeout), "ms">>)

K8sCloseResult(pod, code, stdout, stderr) ==
  K8sResult(pod, code = 0, Trim(stdout), Trim(stderr), code, NoError)

K8sErrorResult(pod, msg) ==
  K8sResult(pod, FALSE, << >>, << >>, Null,
            <<"Failed to execute kubectl: ", msg,
              ". Is kubectl installed and in PATH?">>)

\* ------------------------------------------------------------ one execute call
\* The locals of one call: the Client or child process, the timer, the
\* `resolved` flag, the output buffers, and what the call's promise holds.
\*   outcomes: how often an outcome path ran (a return or a resolve(...))
\*   ends:     how often client.end() / proc.kill() was called
\*   keyPath:  const keyPath of executeRemoteCommand, "" when none resolved
NewCall ==
  [started |-> FALSE, phase |-> "new", client |-> FALSE, timer |-> "none",
   resolved |-> FALSE, stdout |-> << >>, stderr |-> << >>, exitCode |-> Null,
   result |-> NoResult, outcomes |-> 0, ends |-> 0, errFired |-> FALSE,
   keyPath |-> ""]

\* `return {...}` of the async function, before any promise is built
Return(keyPath, value) ==
  [NewCall EXCEPT !.started = TRUE, !.phase = "returned", !.result = value,
                  !.outcomes = 1, !.keyPath = keyPath]

\* resolve(value): a promise keeps the first value it is settled with
Resolve(c, value) ==
  [c EXCEPT !.result = IF c.result = NoResult THEN value ELSE c.result,
            !.outcomes = c.outcomes + 1]

\* clearTimeout(timeoutId): nothing to clear once the timer has fired
ClearTimeout(c) ==
  [c EXCEPT !.timer = IF c.timer = "armed" THEN "cleared" ELSE c.timer]

\* client.end() / proc.kill('SIGTERM')
EndSession(c) == [c EXCEPT !.ends = c.ends + 1]

EffectiveTimeout(opt, configured) == IF opt # 0 THEN opt ELSE configured

\* getSshPrivateKeyPath(): the configured path if its file exists
GetSshPrivateKeyPath(env, fs) ==
  IF env = "" THEN ""
  ELSE IF fs[env] # "missing" THEN env ELSE ""

ResolveKeyPath(opt, env, fs) ==
  IF opt # "" THEN opt ELSE GetSshPrivateKeyPath(env, fs)

\* the message of the error fs.readFileSync throws
ReadError(state) == IF state = "missing" THEN "ENOENT" ELSE "EACCES"

\* mutant: the client and its timer are set up before the key is looked at
ExecuteRemoteCommandClientFirst(host, opt, env, fs) ==
  LET keyPath == ResolveKeyPath(opt, env, fs) IN
  IF keyPath = ""
  THEN [Return(keyPath, NoKeyResult(host)) EXCEPT !.client = TRUE,
                                                  !.timer = "armed"]
  ELSE IF fs[keyPath] # "ok"
       THEN Return(keyPath, ReadFailResult(host, ReadError(fs[keyPath])))
       ELSE [NewCall EXCEPT !.started = TRUE, !.phase = "connecting",
                            !.client = TRUE, !.timer = "armed",
                            !.keyPath = keyPath]

\* executeRemoteCommand up to its first suspension: the key checks, then the
\* promise executor (new Client, setTimeout, the handlers, client.connect)
ExecuteRemoteCommand(host, opt, env, fs) ==
  LET keyPath == ResolveKeyPath(opt, env, fs) IN
  IF keyPath = "" THEN Return(keyPath, NoKeyResult(host))
  ELSE IF fs[keyPath] # "ok"
       THEN Return(keyPath, ReadFailResult(host, ReadError(fs[keyPath])))
       ELSE [NewCall EXCEPT !.started = TRUE, !.phase = "connecting",
                            !.client = TRUE, !.timer = "armed",
                            !.keyPath = keyPath]

\* executeInPod up to its first suspension: setTimeout, spawn, the handlers
ExecuteInPod(pod) ==
  [NewCall EXCEPT !.started = TRUE, !.phase = "spawned", !.client = TRUE,
                  !.timer = "armed"]

\* mutant: the timeout handler settles the call and leaves the session open
SshOnTimeoutNoEnd(c, host, timeout) ==
  LET f == [c EXCEPT !.timer = "fired"] IN
  IF ~c.resolved
  THEN Resolve([f EXCEPT !.resolved = TRUE],
               SshTimeoutResult(host, c.stdout, c.stderr, timeout))
  ELSE f

\* setTimeout callback of executeRemoteCommand
SshOnTimeout(c, host, timeout) ==
  LET f == [c EXCEPT !.timer = "fired"] IN
  IF ~c.resolved
  THEN Resolve(EndSession([f EXCEPT !.resolved = TRUE]),
               SshTimeoutResult(host, c.stdout, c.stderr, timeout))
  ELSE f

\* client.on('ready'): client.exec(command, callback)
SshOnReady(c) == [c EXCEPT !.phase = "execReq"]

\* the client.exec callback with err set
SshOnExecError(c, host, msg) ==
  Resolve(EndSession([ClearTimeout(c) EXCEPT !.resolved = TRUE,
                                             !.phase = "execFailed"]),
          ExecFailResult(host, msg))

\* the client.exec callback with a stream: the stream handlers are attached
SshOnExecStream(c) == [c EXCEPT !.phase = "stream"]

\* stream.on('close')
SshOnClose(c, host, code) ==
  LET f == [ClearTimeout(c) EXCEPT !.phase = "closed"] IN
  IF ~c.resolved
  THEN Resolve(EndSession([f EXCEPT !.resolved = TRUE, !.exitCode = code]),
               SshCloseResult(host, code, c.stdout, c.stderr))
  ELSE f

\* client.on('error')
SshOnError(c, host, msg) ==
  LET f == [ClearTimeout(c) EXCEPT !.errFired = TRUE] IN
  IF ~c.resolved
  THEN Resolve([f EXCEPT !.resolved = TRUE], SshErrorResult(host, msg))
  ELSE f

\* stream.on('data') / stream.stderr.on('data'), proc.stdout / proc.stderr
OnData(c, fd, chunk) ==
  IF fd = "stdout" THEN [c EXCEPT !.stdout = c.stdout \o chunk]
  ELSE [c EXCEPT !.stderr = c.stderr \o chunk]

\* setTimeout callback of executeInPod
K8sOnTimeout(c, pod, timeout) ==
  LET f == [c EXCEPT !.timer = "fired"] IN
  IF ~c.resolved
  THEN Resolve(EndSession([f EXCEPT !.resolved = TRUE]),
               K8sTimeoutResult(pod, c.stdout, c.stderr, timeout))
  ELSE f

\* proc.on('close')
K8sOnClose(c, pod, code) ==
  LET f == [ClearTimeout(c) EXCEPT !.phase = "closed"] IN
  IF ~c.resolved
  THEN Resolve([f EXCEPT !.resolved = TRUE],
               K8sCloseResult(pod, code, c.stdout, c.stderr))
  ELSE f

\* mutant: the error handler clears the timer and forgets to resolve
K8sOnErrorNoResolve(c, pod, msg) ==
  [ClearTimeout(c) EXCEPT !.errFired = TRUE]

\* proc.on('error')
K8sOnError(c, pod, msg) ==
  LET f == [ClearTimeout(c) EXCEPT !.errFired = TRUE] IN
  IF ~c.resolved
  THEN Resolve([f EXCEPT !.resolved = TRUE], K8sErrorResult(pod, msg))
  ELSE f

\* ------------------------------------------------------------ batch runner
\* options.concurrency || 5
Concurrency(opt) == IF opt # 0 THEN opt ELSE DefaultConcurrency

\* mutant: the slice takes one endpoint too many
WindowIndicesOffByOne(hs, idx, c) == (idx + 1)..Min(idx + c + 1, Len(hs))

\* hosts.slice(idx, idx + c), as the indices it covers
WindowIndices(hs, idx, c) == (idx + 1)..Min(idx + c, Len(hs))

\* hosts.slice(idx, idx + c)
Window(hs, idx, c) == SubSeq(hs, idx + 1, Min(idx + c, Len(hs)))

\* the value of Promise.all(batch.map(...)): one result per batch entry, in
\* the order of the batch
PromiseAll(cs, idx, c) ==
  [j \in 1..Cardinality(WindowIndices(cs, idx, c)) |-> cs[idx + j].result]

\* mutant: Promise.race in place of Promise.all
AnySettled(cs, idx, c) ==
  \E k \in (idx + 1)..Min(idx + c, Len(cs)) : cs[k].result # NoResult

\* Promise.all is fulfilled once every promise of the batch is
AllSettled(cs, idx, c) ==
  \A k \in WindowIndices(cs, idx, c) : cs[k].result # NoResult

\* mutant: results.unshift(...batchResults)
PushFront(res, batchResults) == batchResults \o res

\* results.push(...batchResults)
Push(res, batchResults) == res \o batchResults

\* mutant: the loop gives up after a batch with a failed result
LoopTestUntilFailure(idx, hs) ==
  idx < Len(hs) /\ \A j \in 1..idx : calls[j].result.success

\* the loop test `i < hosts.length`
LoopTest(idx, hs) == idx < Len(hs)

\* batch.map(host => execute(host, command, options)): the calls of a batch
\* start back to back, so they see one environment and one file system
Dispatch(cs, idx, c, env, fs) ==
  [k \in DOMAIN cs |->
     IF k \in WindowIndices(hosts, idx, c)
     THEN IF backend = "ssh"
          THEN ExecuteRemoteCommand(hosts[k], optKeyPath, env, fs)
          ELSE ExecuteInPod(hosts[k])
     ELSE cs[k]]

\* the head of the for loop at index idx: slice and dispatch the next batch
\* and suspend in Promise.all, or leave the loop and return results
Loop(idx, c) ==
  IF LoopTest(idx, hosts)
  THEN /\ \E env \in EnvKeyPaths, fs \in [Paths -> FileStates] :
            calls' = Dispatch(calls, idx, c, env, fs)
       /\ windows' = Append(windows, Window(hosts, idx, c))
       /\ pc' = "await"
  ELSE /\ pc' = "done"
       /\ UNCHANGED <<calls, windows>>

\* executeRemoteCommandOnHosts / executeInPods, up to the first await
Start ==
  /\ pc = "start"
  /\ concurrency' = Concurrency(optConcurrency)
  /\ i' = 0
  /\ results' = << >>
  /\ Loop(0, concurrency')
  /\ UNCHANGED <<inputs, tracker, reordered>>

\* Promise.all is fulfilled: push the batch results, i += concurrency, and
\* run the loop head again
Resume ==
  /\ pc = "await"
  /\ AllSettled(calls, i, concurrency)
  /\ results' = Push(results, PromiseAll(calls, i, concurrency))
  /\ i' = i + concurrency
  /\ Loop(i', concurrency)
  /\ UNCHANGED <<inputs, tracker, concurrency, reordered>>

\* ------------------------------------------------------------ callbacks
Timeout ==
  EffectiveTimeout(optTimeout,
                   IF backend = "ssh" THEN DefaultSshTimeout
                   ELSE DefaultK8sTimeout)

\* call k settles while an earlier call of the running batch has not
Overtakes(k, c2) ==
  /\ calls[k].result = NoResult
  /\ c2.result # NoResult
  /\ \E j \in (i + 1)..(k - 1) : calls[j].result = NoResult

\* a callback of call k runs and leaves the call as c2
Callback(k, c2) ==
  /\ calls' = [calls EXCEPT ![k] = c2]
  /\ reordered' = (reordered \/ Overtakes(k, c2))
  /\ UNCHANGED <<inputs, tracker, pc, concurrency, i, results, windows>>

TimerFires(k) ==
  /\ calls[k].timer = "armed"
  /\ Callback(k, IF backend = "ssh"
                 THEN SshOnTimeout(calls[k], hosts[k], Timeout)
                 ELSE K8sOnTimeout(calls[k], hosts[k], Timeout))

\* The transport events.  ssh2 and the child process raise them in the order
\* of their protocol: ready once, before the session is ended or has failed;
\* the exec callback once after ready; data and close on an open stream; an
\* error or a close also after the timeout handler has ended the session.
SshReady(k) ==
  /\ backend = "ssh"
  /\ calls[k].phase = "connecting"
  /\ calls[k].ends = 0
  /\ ~calls[k].errFired
  /\ Callback(k, SshOnReady(calls[k]))

\* a session that was ended or has failed opens no channel any more, and the
\* channel request still waiting is answered with an error
SshExecStream(k) ==
  /\ backend = "ssh"
  /\ calls[k].phase = "execReq"
  /\ calls[k].ends = 0
  /\ ~calls[k].errFired
  /\ Callback(k, SshOnExecStream(calls[k]))

SshExecError(k) ==
  /\ backend = "ssh"
  /\ calls[k].phase = "execReq"
  /\ \E msg \in Messages : Callback(k, SshOnExecError(calls[k], hosts[k], msg))

\* output that arrives after the call is settled is read by nothing
SshData(k) ==
  /\ backend = "ssh"
  /\ calls[k].phase = "stream"
  /\ ~calls[k].resolved
  /\ Len(calls[k].stdout) + Len(calls[k].stderr) < MaxData * 2
  /\ \E fd \in {"stdout", "stderr"}, chunk \in Chunks :
        Callback(k, OnData(calls[k], fd, chunk))

SshClose(k) ==
  /\ backend = "ssh"
  /\ calls[k].phase = "stream"
  /\ \E code \in ExitCodes : Callback(k, SshOnClose(calls[k], hosts[k], code))

\* the connection can fail until its channel has closed
SshError(k) ==
  /\ backend = "ssh"
  /\ calls[k].phase \in {"connecting", "execReq", "stream"}
  /\ ~calls[k].errFired
  /\ \E msg \in Messages : Callback(k, SshOnError(calls[k], hosts[k], msg))

\* output that arrives after the call is settled is read by nothing
K8sData(k) ==
  /\ backend = "k8s"
  /\ calls[k].phase = "spawned"
  /\ ~calls[k].resolved
  /\ Len(calls[k].stdout) + Len(calls[k].stderr) < MaxData * 2
  /\ \E fd \in {"stdout", "stderr"}, chunk \in Chunks :
        Callback(k, OnData(calls[k], fd, chunk))

\* code is null when the process was ended by a signal
K8sClose(k) ==
  /\ backend = "k8s"
  /\ calls[k].phase = "spawned"
  /\ \E code \in ExitCodes \cup {Null} :
        Callback(k, K8sOnClose(calls[k], hosts[k], code))

K8sError(k) ==
  /\ backend = "k8s"
  /\ calls[k].phase = "spawned"
  /\ ~calls[k].errFired
  /\ \E msg \in Messages : Callback(k, K8sOnError(calls[k], hosts[k], msg))

\* ------------------------------------------------------------ specification
Init ==
  /\ backend \in Backends
  /\ \E n \in 0..MaxHosts : hosts = SubSeq(HostNames, 1, n)
  /\ optConcurrency \in 0..MaxConcurrency
  /\ optTimeout \in TimeoutOptions
  /\ optKeyPath \in (IF backend = "ssh" THEN KeyPathOptions ELSE {""})
  \* longer lists run as the tools of the repository run them: with the
  \* configured timeout and key
  /\ Len(hosts) > MaxOptHosts => (optTimeout = 0 /\ optKeyPath = "")
  /\ pc = "start"
  /\ concurrency = 0
  /\ i = 0
  /\ results = << >>
  /\ windows = << >>
  /\ calls = [k \in 1..Len(hosts) |-> NewCall]
  /\ reordered = FALSE
  /\ TrackerIdle

Next ==
  \/ Start
  \/ Resume
  \/ \E k \in DOMAIN calls : TimerFires(k)
  \/ \E k \in DOMAIN calls : SshReady(k)
  \/ \E k \in DOMAIN calls : SshExecStream(k)
  \/ \E k \in DOMAIN calls : SshExecError(k)
  \/ \E k \in DOMAIN calls : SshData(k)
  \/ \E k \in DOMAIN calls : SshClose(k)
  \/ \E k \in DOMAIN calls : SshError(k)
  \/ \E k \in DOMAIN calls : K8sData(k)
  \/ \E k \in DOMAIN calls : K8sClose(k)
  \/ \E k \in DOMAIN calls : K8sError(k)

Spec == Init /\ [][Next]_vars

\* Node runs a callback whose timer is due and a continuation whose promise
\* is fulfilled; the transport owes the program no event at all
FairSpec ==
  /\ Spec
  /\ WF_vars(Resume)
  /\ WF_vars(Start)
  /\ \A k \in 1..(MaxHosts + 1) : WF_vars(k \in DOMAIN calls /\ TimerFires(k))

\* ------------------------------------------------------------ properties
EndpointOf(r) == IF backend = "ssh" THEN r.host ELSE r.pod

Ceil(n, c) == (n + c - 1) \div c

\* the calls that have been started and whose promise is still pending
InFlight == {k \in DOMAIN calls : calls[k].started /\ calls[k].result = NoResult}

\* the batch (counted from 0) that hosts[k] falls into
WindowOf(k) == (k - 1) \div Concurrency(optConcurrency)

IsFailure(r) == r # NoResult /\ ~r.success

\* C1: when the batch runner returns, results has one entry per endpoint and
\* the j-th entry is the result of the call made for the j-th endpoint, in
\* whatever order the calls of a batch settled.
ResultsAligned ==
  pc = "done" =>
    /\ Len(results) = Len(hosts)
    /\ \A j \in 1..Len(hosts) :
         /\ results[j] = calls[j].result
         /\ results[j] # NoResult
         /\ EndpointOf(results[j]) = hosts[j]

ResultsAlignedWitness ==
  /\ pc = "done"
  /\ reordered
  /\ Len(windows) >= 2
  /\ Len(results) = Len(hosts)

\* C2: at no time are more than `concurrency` calls started and unsettled.
AtMostCInFlight == Cardinality(InFlight) <= Concurrency(optConcurrency)

AtMostCInFlightWitness ==
  /\ Cardinality(InFlight) = Concurrency(optConcurrency)
  /\ Cardinality(InFlight) >= 2
  /\ Len(hosts) > Concurrency(optConcurrency)

\* C3: the batches are consecutive slices of the endpoint list of exactly
\* `concurrency` endpoints, the last one possibly shorter, ceil(N/C) of them
\* when the runner returns; and a call of a later batch is started only once
\* every call of every earlier batch has settled.
WindowsInOrder ==
  LET c == Concurrency(optConcurrency) IN
  /\ \A w \in 1..Len(windows) :
       /\ windows[w] = SubSeq(hosts, (w - 1) * c + 1, Min(w * c, Len(hosts)))
       /\ windows[w] # << >>
       /\ Len(windows[w]) <= c
       /\ w < Len(windows) => Len(windows[w]) = c
  /\ pc = "done" => Len(windows) = Ceil(Len(hosts), c)
  /\ \A j, k \in DOMAIN calls :
       (calls[k].started /\ WindowOf(j) < WindowOf(k))
          => calls[j].result # NoResult

WindowsInOrderWitness ==
  /\ pc = "done"
  /\ Len(windows) = 2
  /\ Len(windows[1]) = 2
  /\ Len(windows[2]) = 1

\* C4: a failed or timed-out call stops nothing: the other endpoints of its
\* batch were started with it, and when the runner returns every endpoint of
\* the list has been executed and has its own result in results.
FailureIsolated ==
  \A k \in DOMAIN calls :
    IsFailure(calls[k].result) =>
      /\ \A j \in DOMAIN calls : WindowOf(j) = WindowOf(k) => calls[j].started
      /\ pc = "done" =>
           \A j \in DOMAIN calls :
             /\ calls[j].started
             /\ calls[j].result # NoResult
             /\ j <= Len(results)
             /\ results[j] = calls[j].result

FailureIsolatedWitness ==
  /\ pc = "done"
  /\ Len(hosts) = 3
  /\ Concurrency(optConcurrency) = 2
  /\ calls[1].timer = "fired"
  /\ IsFailure(results[1])
  /\ results[2].success
  /\ results[3].success

\* the shape of a CommandResult
IsCommandResult(r) ==
  /\ r # NoResult
  /\ r.success \in BOOLEAN
  /\ r.exitCode \in ExitCodes \cup {Null}

\* what a step that settles call k went through: a key that is missing or
\* cannot be read, the timer, a connection or spawn error, a failed exec, or a
\* command that ended with a non-zero exit code
FailureStep(k) ==
  \/ calls'[k].phase = "returned"
  \/ calls[k].timer = "armed" /\ calls'[k].timer = "fired"
  \/ ~calls[k].errFired /\ calls'[k].errFired
  \/ calls'[k].phase = "execFailed"
  \/ calls'[k].phase = "closed" /\ calls'[k].result.exitCode # 0

\* C5: whatever path settles an execute call, it settles it with a
\* CommandResult, and with success = false on every failure path; no path
\* leaves the call without a value.
NeverRejects ==
  [][\A k \in DOMAIN calls :
       (calls[k].result = NoResult /\ calls'[k].started
          /\ (calls'[k].resolved \/ calls'[k].phase = "returned"))
         => /\ IsCommandResult(calls'[k].result)
            /\ EndpointOf(calls'[k].result) = hosts[k]
            /\ FailureStep(k) => ~calls'[k].result.success]_vars

NeverRejectsWitness ==
  /\ backend = "ssh"
  /\ Len(hosts) = 2
  /\ calls[1].phase = "returned"
  /\ calls[1].result = NoKeyResult(hosts[1])
  /\ calls[2].phase = "execFailed"
  /\ IsFailure(calls[2].result)
  /\ calls[2].result.error[1] = "Command execution failed: "

\* C6: once a call is settled, no later callback delivers another result or
\* touches the session again: every outcome path tests the flag first.
SettledOnce ==
  [][\A k \in DOMAIN calls :
       calls[k].resolved =>
         /\ calls'[k].outcomes = calls[k].outcomes
         /\ calls'[k].ends = calls[k].ends]_vars

\* C7: a call whose timer has fired has ended its session and holds the
\* timeout result (success = false, exitCode = null, "timed out after
\* <timeoutMs>ms"), and keeps it whatever event arrives afterwards.
TimeoutResultKept ==
  \A k \in DOMAIN calls :
    calls[k].timer = "fired" =>
      /\ calls[k].ends >= 1
      /\ calls[k].result # NoResult
      /\ ~calls[k].result.success
      /\ calls[k].result.exitCode = Null
      /\ Includes(calls[k].result.error,
                  <<"timed out after ", ToString(Timeout), "ms">>)
      /\ pc = "done" => results[k] = calls[k].result

\* the timer fired on a running command, and its close event came afterwards
TimeoutResultKeptWitness ==
  /\ pc = "done"
  /\ optTimeout = 2000
  /\ \E k \in DOMAIN calls :
       /\ calls[k].timer = "fired"
       /\ calls[k].phase = "closed"
       /\ results[k].error[Len(results[k].error) - 1] = "2000"

\* C8: a started call is pending only while its timer is armed, so it is
\* settled at the latest when the timer fires; and the batch runner returns.
AlwaysYields ==
  /\ [](\A k \in DOMAIN calls :
          (calls[k].started /\ calls[k].timer # "armed")
            => calls[k].result # NoResult)
  /\ <>(pc = "done")

\* the runner returned although no transport event ever arrived
AlwaysYieldsWitness ==
  /\ pc = "done"
  /\ Len(hosts) >= 2
  /\ \A k \in DOMAIN calls :
       /\ calls[k].phase \in {"connecting", "spawned"}
       /\ ~calls[k].errFired
       /\ calls[k].timer = "fired"

\* C9: success exactly for exit code 0; a non-zero exit code is carried with
\* success = false; exitCode is null exactly for the results that carry an
\* error text (timeout, transport failure), and then success is false.
ResultConsistent ==
  \A k \in DOMAIN calls :
    LET r == calls[k].result IN
    r # NoResult =>
      /\ r.success <=> r.exitCode = 0
      /\ r.exitCode = Null <=> r.error # NoError
      /\ r.exitCode = Null => ~r.success

\* C10: a call that resolved no key path has its error result as soon as it
\* is started, and has created no client, armed no timer and ended nothing.
NoKeyReturnsAtOnce ==
  \A k \in DOMAIN calls :
    (backend = "ssh" /\ calls[k].started /\ calls[k].keyPath = "") =>
      /\ calls[k].result = NoKeyResult(hosts[k])
      /\ ~calls[k].result.success
      /\ calls[k].result.exitCode = Null
      /\ calls[k].result.error # NoError
      /\ ~calls[k].client
      /\ calls[k].timer = "none"
      /\ calls[k].phase = "returned"
      /\ calls[k].ends = 0

NoKeyReturnsAtOnceWitness ==
  /\ backend = "ssh"
  /\ pc = "await"
  /\ \E k \in DOMAIN calls :
       /\ calls[k].started
       /\ calls[k].keyPath = ""
       /\ calls[k].result.error = NoKeyMessage

(***************************************************************************)
(* The command tools (ssh-tools.ts, k8s-tools.ts) and the convergence      *)
(* tracker of ambari_ssh_restart_agent_and_wait and                        *)
(* ambari_k8s_restart_agent_and_wait.                                      *)
(*                                                                         *)
(* One behaviour is one invocation of one tool.  Each action is the        *)
(* stretch of the executor between two awaits.  The batch runner the tool  *)
(* awaits is the one modelled above; here it is taken by its outcome, one  *)
(* result per target in target order (ResultsAligned), each result one     *)
(* that the remote executor above produces.                                *)
(***************************************************************************)

\* ------------------------------------------------------------------ bounds
MaxTargets == 2        \* longest explicit target list, and endpoints known
MaxDefaultTargets == 1 \* longest target list run with the default wait time

\* ------------------------------------------------------- program constants
PollIntervalMs == 5000
DefaultWaitSeconds == 60
MsPerSecond == 1000

\* ------------------------------------------------------------ input sets
Tools == {"restart_agent", "run_command", "check_agent_status",
          "restart_agent_and_wait"}
WaitOptions == {0, 7}            \* 0: waitTimeSeconds not given
Heartbeats == {100, 200}         \* last_heartbeat_time values
Statuses == {"HEALTHY", "UNHEALTHY"}
Selectors == {"", "app=ambari-agent"}   \* K8S_POD_LABEL_SELECTOR, "" when unset
FetchDelays == {0, 2500}         \* ms one health fetch of a tick may take
BatchDelays == {0, 2500}         \* ms the restart batch may take

\* endpoint names are strings of tokens; a name is one token long
Names == {<<HostNames[k]>> : k \in 1..MaxTargets}

\* ------------------------------------------------------------ strings
\* String.prototype.split(',')
RECURSIVE Split(_)
Split(s) ==
  IF \A k \in DOMAIN s : s[k] # ","
  THEN <<s>>
  ELSE LET k == CHOOSE k \in DOMAIN s :
                  s[k] = "," /\ \A j \in 1..(k - 1) : s[j] # ","
       IN  <<SubSeq(s, 1, k - 1)>> \o Split(SubSeq(s, k + 1, Len(s)))

\* Array.prototype.join
RECURSIVE Join(_, _)
Join(list, sep) ==
  IF list = << >> THEN << >>
  ELSE IF Len(list) = 1 THEN list[1]
  ELSE list[1] \o sep \o Join(Tail(list), sep)

\* a || b on strings: the empty string is falsy
Or(a, b) == IF a # << >> THEN a ELSE b

\* Math.round of a non-negative number of milliseconds, in seconds
RoundSeconds(ms) == (2 * ms + MsPerSecond) \div (2 * MsPerSecond)

\* ------------------------------------------------------------ arguments
Lists(n) == UNION {[1..m -> Names] : m \in 0..n}

\* args.hosts / args.pods: absent, blank, a lone comma, or a list of names
HostsArgs ==
  {Undefined} \cup
  {[given |-> TRUE, text |-> t] :
     t \in {<<" ">>, <<",">>} \cup {Join(l, <<",", " ">>) : l \in Lists(MaxTargets)}}

\* what discovery can answer: the known endpoints, in name order
DiscoveryLists ==
  {SelectSeq([k \in 1..MaxTargets |-> <<HostNames[k]>>], LAMBDA n : n \in S) :
     S \in SUBSET Names}

\* ------------------------------------------------------------ configuration
\* getSshConfig().enabled: the key path is set and its file exists
IsSshConfigured(env, fs) == env # "" /\ fs[env] # "missing"

\* getK8sConfig().enabled, as the configuration module hands it over
IsK8sConfigured(k8sConfig) == k8sConfig.enabled

\* getK8sConfig(): K8s mode is enabled when a pod label selector is set
GetK8sConfig(selector) ==
  [enabled |-> selector # "", podLabelSelector |-> selector]

K8sConfigs == {GetK8sConfig(selector) : selector \in Selectors}

\* mutant: the configuration test lets every invocation pass
NotConfiguredNever(enabled) == FALSE

\* if (!isSshConfigured()) / if (!isK8sConfigured())
NotConfigured(enabled) == ~enabled

\* ------------------------------------------------------------ target lists
\* hostsArg.split(',').map(h => h.trim()).filter(h => h)
ParseList(text) ==
  SelectSeq([k \in DOMAIN Split(text) |-> Trim(Split(text)[k])],
            LAMBDA h : h # << >>)

\* hostsArg && hostsArg.trim()
Explicit(arg) == arg.given /\ Trim(arg.text) # << >>

\* mutant: an empty target list passes the test
NoTargetsNever(list) == FALSE

\* hosts.length === 0 / pods.length === 0
NoTargets(list) == Len(list) = 0

\* ------------------------------------------------------------ errors, values
ConfigError ==
  [kind |-> "throw", code |-> "InvalidRequest",
   message |->
     IF backend = "ssh"
     THEN "SSH is not configured. Please set SSH_PRIVATE_KEY_PATH in your .env file."
     ELSE "Kubernetes mode is not configured. Please set K8S_POD_LABEL_SELECTOR in your .env file."]

NoTargetsMessage(t) ==
  IF backend = "ssh"
  THEN CASE t = "restart_agent" -> "No hosts found to restart agent on."
         [] t = "run_command" -> "No hosts found to run command on."
         [] t = "check_agent_status" -> "No hosts found to check."
         [] OTHER -> "No hosts found."
  ELSE CASE t = "restart_agent" -> "No pods found to restart agent in."
         [] t = "run_command" -> "No pods found to run command in."
         [] t = "check_agent_status" -> "No pods found to check."
         [] OTHER -> "No pods found."

NoTargetsError(t) ==
  [kind |-> "throw", code |-> "InvalidRequest", message |-> NoTargetsMessage(t)]

\* getClusterName / ambariGet of discovery rejects
ApiError ==
  [kind |-> "throw", code |-> "InternalError", message |-> "Ambari API"]

\* ------------------------------------------------------------ health fetch
\* ambariGet(`/clusters/${clusterName}/hosts/${host}`): a response whose
\* last_heartbeat_time may be missing (Null), or a rejection
Response(hb, status) == [kind |-> "ok", hb |-> hb, status |-> status]
FetchError == [kind |-> "error"]

BaselineResponses ==
  {FetchError} \cup {Response(hb, "HEALTHY") : hb \in {Null, 100}}

PollResponses ==
  {FetchError} \cup
  {Response(hb, st) : hb \in Heartbeats \cup {Null}, st \in Statuses}

\* mutant: the heartbeat of a response is never read
HeartbeatMissing(resp) == 0

\* hostInfo.Hosts?.last_heartbeat_time ?? 0
Heartbeat(resp) == IF resp.hb = Null THEN 0 ELSE resp.hb

\* beforeHeartbeats[host] ?? 0
Lookup(bh, h) == IF h \in DOMAIN bh THEN bh[h] ELSE 0

\* beforeHeartbeats[host] = v
Put(bh, h, v) == [n \in DOMAIN bh \cup {h} |-> IF n = h THEN v ELSE bh[n]]

\* mutant: the catch block stores a positive heartbeat
BaselineOfStale(resp) == IF resp.kind = "ok" THEN Heartbeat(resp) ELSE 100

\* the value the baseline loop stores: the heartbeat, 0 in the catch block
BaselineOf(resp) == IF resp.kind = "ok" THEN Heartbeat(resp) ELSE 0


\* mutant: any newer heartbeat converges, whatever the status
ConvergedAnyStatus(newHeartbeat, oldHeartbeat, status) ==
  newHeartbeat > oldHeartbeat

\* newHeartbeat > oldHeartbeat && status === 'HEALTHY'
Converged(newHeartbeat, oldHeartbeat, status) ==
  newHeartbeat > oldHeartbeat /\ status = "HEALTHY"

\* mutant: a rejected fetch counts as a re-registration
ReregistersOnError(resp, oldHeartbeat) ==
  \/ resp.kind # "ok"
  \/ Converged(Heartbeat(resp), oldHeartbeat, resp.status)

\* the try block of a poll tick: the test runs on a response only, a
\* rejection falls into the empty catch block
Reregisters(resp, oldHeartbeat) ==
  /\ resp.kind = "ok"
  /\ Converged(Heartbeat(resp), oldHeartbeat, resp.status)

\* ------------------------------------------------------------ collections
Range(seq) == {seq[k] : k \in DOMAIN seq}

\* new Set(list), in insertion order
RECURSIVE Dedupe(_)
Dedupe(list) ==
  IF list = << >> THEN << >>
  ELSE LET init == Dedupe(SubSeq(list, 1, Len(list) - 1))
           last == list[Len(list)]
       IN  IF last \in Range(init) THEN init ELSE Append(init, last)

\* mutant: the whole set is cleared
DeleteAll(set, h) == << >>

\* pending.delete(host)
Delete(set, h) == SelectSeq(set, LAMBDA x : x # h)

\* results.map(r => r.host) / results.map(r => r.pod)
Endpoints(rs) ==
  [k \in DOMAIN rs |-> IF backend = "ssh" THEN rs[k].host ELSE rs[k].pod]

\* ------------------------------------------------------------ restart batch
\* what executeRemoteCommandOnHosts / executeInPods can hold for one target:
\* exit code 0, a non-zero exit code with error output, or the timeout
RestartOutcomes(h) ==
  IF backend = "ssh"
  THEN {SshCloseResult(h, 0, << >>, << >>)} \cup
       {SshCloseResult(h, 1, << >>, ch) : ch \in Chunks} \cup
       {SshTimeoutResult(h, << >>, << >>, DefaultSshTimeout)}
  ELSE {K8sCloseResult(h, 0, << >>, << >>)} \cup
       {K8sCloseResult(h, 1, << >>, ch) : ch \in Chunks} \cup
       {K8sTimeoutResult(h, << >>, << >>, DefaultK8sTimeout)}

BatchOutcomes(list) ==
  {rs \in [DOMAIN list -> UNION {RestartOutcomes(h) : h \in Range(list)}] :
     \A k \in DOMAIN list : rs[k] \in RestartOutcomes(list[k])}

\* mutant: every result counts as a successful restart
SucceededAlways(r) == TRUE

Succeeded(r) == r.success

\* mutant: no result counts as a failed restart
FailedNever(r) == FALSE

Failed(r) == ~r.success

\* formatResults(results): the counts of its header line and the results
FormatResults(rs) ==
  [succeeded |-> Len(SelectSeq(rs, Succeeded)),
   failed |-> Len(SelectSeq(rs, Failed)),
   total |-> Len(rs), results |-> rs]

\* failedRestarts.map(r => ({ host: r.host, error: r.error || r.stderr }));
\* the K8s executor names the field pod
FailedEntry(r) == [host |-> EndpointOf(r), error |-> Or(r.error, r.stderr)]

FailedEntries(failed) == [k \in DOMAIN failed |-> FailedEntry(failed[k])]

\* (args['waitTimeSeconds'] as number) || 60
WaitTimeSeconds(arg) == IF arg # 0 THEN arg ELSE DefaultWaitSeconds

\* ------------------------------------------------------------ return values
ToolResult(rs) == [kind |-> "return", details |-> FormatResults(rs)]

AllFailedResult(rs) ==
  [kind |-> "return",
   summary |-> IF backend = "ssh" THEN "Failed to restart agent on any host"
               ELSE "Failed to restart agent in any pod",
   restart_results |-> FormatResults(rs)]

\* the object returned after the loop; the K8s executor names three of the
\* fields total_pods, reregistered_pods, failed_restart_pods
Aggregate(targets, restarted, failed, rereg, pend, waited) ==
  [kind |-> "return",
   total_hosts |-> Len(targets),
   restart_succeeded |-> Len(restarted),
   restart_failed |-> Len(failed),
   reregistered |-> Len(rereg),
   still_pending |-> pend,
   reregistered_hosts |-> rereg,
   failed_restart_hosts |-> FailedEntries(failed),
   wait_time_seconds |-> waited]

\* ------------------------------------------------------------ executor steps
args == <<tool, isConfigured, hostsArg, waitArg>>

runner == <<backend, optConcurrency, optTimeout, optKeyPath, pc, concurrency,
            i, results, windows, calls, reordered>>

polling == <<startTime, endTime, now, reregistered, pending, scan, si, ticks>>

restart == <<restartResults, restartedHosts, failedRestarts>>

WaitTool == tool = "restart_agent_and_wait"

\* throw new McpError(...) / a rejected await: the executor ends by throwing
Throw(err) == wpc' = "thrown" /\ ret' = err

\* return value: the executor ends by returning
Finish(value) == wpc' = "returned" /\ ret' = value

\* mutant: no pod counts as having a hostname
MappedHostsOnly(h, map) == backend = "ssh"

\* mutant: every pod counts as having a hostname
MappedAlways(h, map) == TRUE

\* the pod has a hostname in hostnameMap; an SSH host is fetched by its name
Mapped(h, map) == backend = "ssh" \/ h \in map

\* mutant: no endpoint is fetched
NextMappedNone(list, k, map) == Len(list) + 1

\* the first index from k on whose endpoint is fetched, Len(list) + 1 if none
NextMapped(list, k, map) ==
  IF \E idx \in k..Len(list) : Mapped(list[idx], map)
  THEN CHOOSE idx \in k..Len(list) :
         /\ Mapped(list[idx], map)
         /\ \A j \in k..(idx - 1) : ~Mapped(list[j], map)
  ELSE Len(list) + 1

\* after `await resolveHosts(...)`: the emptiness test, then the await of
\* getClusterName() or, in the plain tools, of the batch
Resolved(list, c) ==
  /\ hosts' = list
  /\ IF NoTargets(list)
     THEN Throw(NoTargetsError(tool)) /\ contacted' = c
     ELSE IF WaitTool
     THEN wpc' = "cluster" /\ contacted' = c \cup {"cluster"} /\ ret' = ret
     ELSE wpc' = "exec" /\ contacted' = c \cup {"exec"} /\ ret' = ret

\* the tool executor up to its first await: the configuration test, then
\* resolveHosts / resolvePods
Invoke ==
  /\ wpc = "idle"
  /\ IF NotConfigured(isConfigured)
     THEN Throw(ConfigError) /\ UNCHANGED <<hosts, contacted>>
     ELSE IF Explicit(hostsArg)
     THEN Resolved(ParseList(hostsArg.text), contacted)
     ELSE /\ wpc' = "discover"
          /\ contacted' = contacted \cup {"discover"}
          /\ UNCHANGED <<hosts, ret>>
  /\ UNCHANGED <<args, runner, polling, restart, hostnameMap,
                 beforeHeartbeats, bi, hostInfo>>

\* getAllClusterHosts() / getAmbariPods() settles; only getAllClusterHosts
\* can reject
Discovered ==
  /\ wpc = "discover"
  /\ \/ \E list \in DiscoveryLists : Resolved(list, contacted)
     \/ /\ backend = "ssh"
        /\ Throw(ApiError)
        /\ UNCHANGED <<hosts, contacted>>
  /\ UNCHANGED <<args, runner, polling, restart, hostnameMap,
                 beforeHeartbeats, bi, hostInfo>>

\* the baseline loop from index k on: await the next fetch, or leave the
\* loop and await the restart batch
Baseline(k, map, c) ==
  LET idx == NextMapped(hosts, k, map)
  IN  /\ bi' = idx
      /\ IF idx <= Len(hosts)
         THEN wpc' = "baseline" /\ contacted' = c \cup {"baseline"}
         ELSE wpc' = "exec" /\ contacted' = c \cup {"exec"}

\* getClusterName() settles
ClusterNamed ==
  /\ wpc = "cluster"
  /\ \/ /\ Throw(ApiError)
        /\ UNCHANGED <<bi, contacted>>
     \/ /\ IF backend = "k8s"
           THEN /\ wpc' = "hostmap"
                /\ contacted' = contacted \cup {"hostmap"}
                /\ bi' = bi
           ELSE Baseline(1, hostnameMap, contacted)
        /\ ret' = ret
  /\ UNCHANGED <<args, runner, polling, restart, hosts, hostnameMap,
                 beforeHeartbeats, hostInfo>>

\* getAmbariPods() and getPodHostnameMap(pods) have settled: some of the
\* target pods have a hostname
HostMapped ==
  /\ wpc = "hostmap"
  /\ \E map \in SUBSET Range(hosts) :
       /\ hostnameMap' = map
       /\ Baseline(1, map, contacted)
  /\ UNCHANGED <<args, runner, polling, restart, hosts, beforeHeartbeats,
                 hostInfo, ret>>

\* the baseline fetch of hosts[bi] settles
BaselineFetched ==
  /\ wpc = "baseline"
  /\ \E resp \in BaselineResponses, d \in FetchDelays :
       /\ hostInfo' = resp
       /\ beforeHeartbeats' = Put(beforeHeartbeats, hosts[bi], BaselineOf(resp))
       /\ now' = now + d
  /\ Baseline(bi + 1, hostnameMap, contacted)
  /\ UNCHANGED <<args, runner, restart, hosts, hostnameMap, ret, startTime,
                 endTime, reregistered, pending, scan, si, ticks>>

\* mutant: the deadline is counted from the invocation, not from loopStart
EndTimeFromInvocation(start, waitTimeSeconds) == waitTimeSeconds * MsPerSecond

\* startTime + (waitTimeSeconds * 1000)
EndTime(start, waitTimeSeconds) == start + waitTimeSeconds * MsPerSecond

\* mutant: the sleep is not awaited
SleepUntilNow(t) == t

\* await new Promise(resolve => setTimeout(resolve, 5000)): the time after
SleepUntil(t) == t + PollIntervalMs

\* mutant: the early return is never taken
NoneRestartedNever(restarted) == FALSE

\* restartedHosts.length === 0
NoneRestarted(restarted) == Len(restarted) = 0

\* mutant: an iteration still starts at the deadline itself
WhileTestInclusive(p, t, e) == Len(p) > 0 /\ t <= e

\* mutant: the loop runs to the deadline whatever is left in pending
WhileTestIgnoresPending(p, t, e) == t < e

\* pending.size > 0 && Date.now() < endTime
WhileTest(p, t, e) == Len(p) > 0 /\ t < e

\* the loop head with pending p, reregistered r, at time t: suspend in the
\* sleep, or leave the loop and return the aggregate
LoopHead(p, r, t, st, e, rh, fr) ==
  IF WhileTest(p, t, e)
  THEN wpc' = "sleep" /\ ret' = ret /\ ticks' = ticks + 1
  ELSE /\ Finish(Aggregate(hosts, rh, fr, r, p, RoundSeconds(t - st)))
       /\ ticks' = ticks

\* the for loop over Array.from(pending) from index k on: await the next
\* fetch, or leave it for the loop head
Tick(k, sc, p, r, t) ==
  LET idx == NextMapped(sc, k, hostnameMap)
  IN  /\ si' = idx
      /\ pending' = p
      /\ reregistered' = r
      /\ now' = t
      /\ IF idx <= Len(sc)
         THEN /\ wpc' = "fetch"
              /\ contacted' = contacted \cup {"poll"}
              /\ UNCHANGED <<ret, ticks>>
         ELSE /\ LoopHead(p, r, t, startTime, endTime, restartedHosts,
                          failedRestarts)
              /\ contacted' = contacted

\* the restart batch settles: the plain tools return its results; the
\* tracker splits them, returns early when no restart succeeded, and
\* otherwise fixes the deadline and enters the loop
BatchResolved ==
  /\ wpc = "exec"
  /\ \E rs \in BatchOutcomes(hosts), d \in BatchDelays :
       /\ restartResults' = rs
       /\ now' = now + d
       /\ IF ~WaitTool
          THEN /\ Finish(ToolResult(rs))
               /\ UNCHANGED <<restartedHosts, failedRestarts, startTime,
                              endTime, reregistered, pending, ticks>>
          ELSE LET rh == Endpoints(SelectSeq(rs, Succeeded))
                   fr == SelectSeq(rs, Failed)
               IN  /\ restartedHosts' = rh
                   /\ failedRestarts' = fr
                   /\ IF NoneRestarted(rh)
                      THEN /\ Finish(AllFailedResult(rs))
                           /\ UNCHANGED <<startTime, endTime, reregistered,
                                          pending, ticks>>
                      ELSE /\ startTime' = now'
                           /\ endTime' = EndTime(startTime',
                                                 WaitTimeSeconds(waitArg))
                           /\ reregistered' = << >>
                           /\ pending' = Dedupe(rh)
                           /\ LoopHead(pending', reregistered', now',
                                       startTime', endTime', rh, fr)
  /\ UNCHANGED <<args, runner, hosts, hostnameMap, beforeHeartbeats, bi,
                 scan, si, hostInfo, contacted>>

\* the 5000 ms sleep is over: snapshot pending and start the tick
Slept ==
  /\ wpc = "sleep"
  /\ scan' = pending
  /\ Tick(1, pending, pending, reregistered, SleepUntil(now))
  /\ UNCHANGED <<args, runner, restart, hosts, hostnameMap, beforeHeartbeats,
                 bi, startTime, endTime, hostInfo>>

\* the health fetch of scan[si] settles: on a response the convergence
\* test, on a rejection the empty catch block; then the rest of the tick
PollFetched ==
  /\ wpc = "fetch"
  /\ \E resp \in PollResponses, d \in FetchDelays :
       LET host == scan[si]
           conv == Reregisters(resp, Lookup(beforeHeartbeats, host))
       IN  /\ hostInfo' = resp
           /\ Tick(si + 1, scan,
                   IF conv THEN Delete(pending, host) ELSE pending,
                   IF conv THEN Append(reregistered, host) ELSE reregistered,
                   now + d)
  /\ UNCHANGED <<args, runner, restart, hosts, hostnameMap, beforeHeartbeats,
                 bi, startTime, endTime, scan>>

\* ------------------------------------------------------------ specification
WaitInit ==
  /\ backend \in Backends
  /\ hosts = << >>
  /\ optConcurrency = 0
  /\ optTimeout = 0
  /\ optKeyPath = ""
  /\ pc = "start"
  /\ concurrency = 0
  /\ i = 0
  /\ results = << >>
  /\ windows = << >>
  /\ calls = << >>
  /\ reordered = FALSE
  /\ tool \in Tools
  /\ IF backend = "ssh"
     THEN \E env \in EnvKeyPaths, fs \in [Paths -> FileStates] :
            isConfigured = IsSshConfigured(env, fs)
     ELSE \E k8sConfig \in K8sConfigs :
            isConfigured = IsK8sConfigured(k8sConfig)
  /\ hostsArg \in HostsArgs
  /\ waitArg \in WaitOptions
  /\ ~WaitTool => waitArg = 0
  \* the default wait of 60 s is run with short explicit target lists
  /\ (WaitTool /\ waitArg = 0) =>
       /\ Explicit(hostsArg)
       /\ Len(ParseList(hostsArg.text)) <= MaxDefaultTargets
  /\ wpc = "idle"
  /\ hostnameMap = {}
  /\ beforeHeartbeats = << >>
  /\ bi = 0
  /\ restartResults = << >>
  /\ restartedHosts = << >>
  /\ failedRestarts = << >>
  /\ startTime = 0
  /\ endTime = 0
  /\ now = 0
  /\ reregistered = << >>
  /\ pending = << >>
  /\ scan = << >>
  /\ si = 0
  /\ hostInfo = NoResponse
  /\ ret = NoReturn
  /\ contacted = {}
  /\ ticks = 0

WaitNext ==
  \/ Invoke
  \/ Discovered
  \/ ClusterNamed
  \/ HostMapped
  \/ BaselineFetched
  \/ BatchResolved
  \/ Slept
  \/ PollFetched

WaitSpec == WaitInit /\ [][WaitNext]_vars

\* The awaits that are certain to settle: the API client runs every request
\* under its timeout, the batch runner always yields (AlwaysYields), the
\* sleep timer fires.  The kubectl call that lists the pods has no timer.
WaitFairSpec ==
  /\ WaitSpec
  /\ WF_vars(Invoke)
  /\ WF_vars(ClusterNamed)
  /\ WF_vars(BaselineFetched)
  /\ WF_vars(BatchResolved)
  /\ WF_vars(Slept)
  /\ WF_vars(PollFetched)

\* ------------------------------------------------------------ properties
\* the endpoints with a successful / a failed result in the restart batch
RestartSucceeded ==
  {EndpointOf(restartResults[k]) :
     k \in {j \in DOMAIN restartResults : restartResults[j].success}}

RestartFailed ==
  {EndpointOf(restartResults[k]) :
     k \in {j \in DOMAIN restartResults : ~restartResults[j].success}}

\* the tracker has entered its polling loop
Entered == WaitTool /\ wpc \in {"sleep", "fetch"}

\* the tracker has returned the aggregate
ReturnedAggregate ==
  wpc = "returned" /\ "still_pending" \in DOMAIN ret

\* C11: when the restart batch has settled, pending is exactly the set of
\* endpoints with a successful restart (each once); in every later step of
\* the run pending loses endpoints or stays as it is, it never gains one.
PendingOnlyShrinks ==
  [][/\ (wpc = "exec" /\ Entered') =>
          /\ Range(pending') = RestartSucceeded'
          /\ Len(pending') = Cardinality(RestartSucceeded')
     /\ Entered => /\ Range(pending') \subseteq Range(pending)
                   /\ Len(pending') <= Len(pending)]_vars

PendingOnlyShrinksWitness ==
  /\ Entered
  /\ Len(reregistered) > 0
  /\ Len(pending) > 0
  /\ RestartFailed = {}

\* the three outcome lists of the returned aggregate, as sets of endpoints
ReportedReregistered == Range(ret.reregistered_hosts)

ReportedPending == Range(ret.still_pending)

ReportedFailed ==
  {ret.failed_restart_hosts[k].host : k \in DOMAIN ret.failed_restart_hosts}

\* C12: in the aggregate a run returns, every endpoint is in at most one of
\* the re-registered list, the still-pending list and the restart-failed
\* list, whatever the target list was (a repeated endpoint included).
AtMostOneOutcome ==
  ReturnedAggregate =>
    /\ ReportedReregistered \cap ReportedPending = {}
    /\ ReportedReregistered \cap ReportedFailed = {}
    /\ ReportedPending \cap ReportedFailed = {}

\* C13: an endpoint enters reregistered only in the step that handles its
\* own health fetch, leaving pending in that same step, and only when the
\* response of that fetch carries a heartbeat strictly greater than the
\* endpoint's baseline together with the status HEALTHY.
OnlyHealthyNewerConverges ==
  [][\A h \in Range(reregistered') \ Range(reregistered) :
       /\ wpc = "fetch"
       /\ h = scan[si]
       /\ h \in Range(pending) \ Range(pending')
       /\ reregistered' = Append(reregistered, h)
       /\ hostInfo'.kind = "ok"
       /\ hostInfo'.hb # Null
       /\ hostInfo'.hb > Lookup(beforeHeartbeats, h)
       /\ hostInfo'.status = "HEALTHY"]_vars

OnlyHealthyNewerConvergesWitness ==
  /\ Len(reregistered) > 0
  /\ si > 1
  /\ reregistered[Len(reregistered)] = scan[si - 1]
  /\ hostInfo.kind = "ok"
  /\ hostInfo.hb = 200
  /\ Lookup(beforeHeartbeats, scan[si - 1]) = 100
  /\ Len(pending) > 0

\* C14: a run that has entered the polling loop returns.  The loop goes on
\* (sleeps, fetches) only while pending is non-empty and the last loop check
\* saw a time before the deadline, so it is left at the first check that
\* finds pending empty or the deadline reached; the aggregate returned
\* lists exactly the endpoints then left in pending as still pending.
LoopTerminates ==
  /\ Entered ~> ReturnedAggregate
  /\ [](wpc = "sleep" => (Len(pending) > 0 /\ now < endTime))
  /\ [](wpc = "fetch" => scan[si] \in Range(pending))
  /\ [](ReturnedAggregate =>
          /\ Len(pending) = 0 \/ now >= endTime
          /\ ret.still_pending = pending)

LoopTerminatesWitness ==
  /\ ReturnedAggregate
  /\ Len(reregistered) > 0
  /\ Len(ret.still_pending) > 0
  /\ now >= endTime

\* the positions of the restart batch that succeeded / failed
SucceededAt == {k \in DOMAIN restartResults : restartResults[k].success}

FailedAt == DOMAIN restartResults \ SucceededAt

\* the run of the tracker is over
Ended == WaitTool /\ wpc \in {"returned", "thrown"}

FailedExcluded ==
  (WaitTool /\ Len(restartResults) > 0) =>
    /\ \A k \in FailedAt :
         LET h == EndpointOf(restartResults[k])
         IN  /\ h \notin Range(pending)
             /\ h \notin Range(reregistered)
             /\ ~(wpc = "fetch" /\ scan[si] = h)
             /\ ReturnedAggregate =>
                  \E e \in Range(ret.failed_restart_hosts) :
                    /\ e.host = h
                    /\ e.error = Or(restartResults[k].error,
                                    restartResults[k].stderr)
    /\ Len(reregistered) <= Len(restartedHosts)

\* C17: when a health fetch of a poll tick is rejected, the step that
\* handles the rejection leaves pending and reregistered as they are and
\* does not throw; the tick goes on with the next endpoint of its snapshot
\* that has a hostname, and after the last one the loop check follows (the
\* next sleep, or the return of the aggregate at the deadline).
FetchErrorSwallowed ==
  [][(wpc = "fetch" /\ hostInfo' = FetchError) =>
       /\ pending' = pending
       /\ reregistered' = reregistered
       /\ scan[si] \in Range(pending')
       /\ wpc' # "thrown"
       /\ LET next == NextMapped(scan, si + 1, hostnameMap)
          IN  IF next <= Len(scan)
              THEN wpc' = "fetch" /\ si' = next /\ scan' = scan
              ELSE \/ wpc' = "sleep"
                   \/ ReturnedAggregate' /\ now' >= endTime]_vars

\* a rejected first fetch of a tick was followed by the second fetch
FetchErrorSwallowedWitness ==
  /\ wpc = "fetch"
  /\ si = 2
  /\ hostInfo = FetchError
  /\ Len(pending) = 2

\* C18: a configured tool whose target resolution has settled with an empty
\* list has thrown the "No hosts found" / "No pods found" error of the tool;
\* it has asked for no cluster name, fetched no baseline, executed nothing
\* remotely and polled nothing, and it never returns a value.  (A rejected
\* discovery resolves no list at all; it throws the API error.)
NoTargetsThrows ==
  (isConfigured /\ wpc \notin {"idle", "discover"} /\ Len(hosts) = 0
     /\ ret # ApiError) =>
    /\ wpc = "thrown"
    /\ ret = NoTargetsError(tool)
    /\ contacted \subseteq {"discover"}

\* "," splits into two blank fields, which the filter drops
NoTargetsThrowsWitness ==
  /\ WaitTool
  /\ hostsArg = [given |-> TRUE, text |-> <<",">>]
  /\ wpc = "thrown"
  /\ ret = NoTargetsError(tool)
  /\ contacted = {}

\* C19: a command tool invoked without a configured transport (no SSH key
\* file, no pod label selector) has thrown the configuration error of its
\* backend, with no target list resolved and nothing called: no discovery,
\* no cluster name lookup, no baseline fetch, no remote execution, no poll.
ConfigErrorFirst ==
  (~isConfigured /\ wpc # "idle") =>
    /\ wpc = "thrown"
    /\ ret = ConfigError
    /\ hosts = << >>
    /\ contacted = {}

ConfigErrorFirstWitness ==
  /\ ~isConfigured
  /\ backend = "k8s"
  /\ tool = "run_command"
  /\ Explicit(hostsArg)
  /\ wpc = "thrown"
  /\ ret = ConfigError

\* the phase of the state machine the executor is in:
\* INIT 0, capturing baselines 1, RESTART_DISPATCHED 2, POLLING 3, ended 4
Phase ==
  CASE wpc \in {"idle", "discover", "cluster", "hostmap"} -> 0
    [] wpc = "baseline" -> 1
    [] wpc = "exec" -> 2
    [] wpc \in {"sleep", "fetch"} -> 3
    [] OTHER -> 4

BaselineFailureNotFatal ==
  /\ [][(wpc = "baseline" /\ hostInfo' = FetchError) =>
          /\ beforeHeartbeats'[hosts[bi]] = 0
          /\ \A h \in DOMAIN beforeHeartbeats' \ {hosts[bi]} :
               h \in DOMAIN beforeHeartbeats /\
               beforeHeartbeats'[h] = beforeHeartbeats[h]
          /\ wpc' \in {"baseline", "exec"}
          /\ hosts' = hosts]_vars
  /\ (wpc = "baseline") ~> (wpc = "exec")
  /\ [][wpc = "exec" =>
          /\ Len(restartResults') = Len(hosts)
          /\ \A k \in DOMAIN hosts :
               EndpointOf(restartResults'[k]) = hosts[k]]_vars

BaselineFailureNotFatalWitness ==
  /\ WaitTool
  /\ Len(restartResults) = 2
  /\ hosts[1] # hosts[2]
  /\ Lookup(beforeHeartbeats, hosts[1]) = 100
  /\ hosts[2] \in DOMAIN beforeHeartbeats
  /\ beforeHeartbeats[hosts[2]] = 0
  /\ hostInfo = FetchError
  /\ "poll" \notin contacted

\* C22: an endpoint whose restart succeeded and whose baseline is 0 (the
\* value the catch block of the baseline loop stores) is moved from pending
\* to re-registered by the step that handles a poll response for it with a
\* positive heartbeat and status HEALTHY; until then it is pending.
ZeroBaselineConverges ==
  [][(/\ wpc = "fetch"
      /\ scan[si] \in DOMAIN beforeHeartbeats
      /\ beforeHeartbeats[scan[si]] = 0
      /\ hostInfo'.kind = "ok"
      /\ hostInfo'.hb > 0
      /\ hostInfo'.status = "HEALTHY") =>
       /\ scan[si] \in RestartSucceeded
       /\ scan[si] \in Range(pending)
       /\ scan[si] \notin Range(reregistered)
       /\ scan[si] \notin Range(pending')
       /\ scan[si] \in Range(reregistered')]_vars

\* the only target had its baseline fetch rejected and re-registered on the
\* first tick
ZeroBaselineConvergesWitness ==
  /\ ReturnedAggregate
  /\ Len(hosts) = 1
  /\ hosts[1] \in DOMAIN beforeHeartbeats
  /\ beforeHeartbeats[hosts[1]] = 0
  /\ reregistered = hosts
  /\ pending = << >>
  /\ ticks = 1
  /\ hostInfo.kind = "ok"
  /\ hostInfo.hb > 0

\* the deadline window D of the run in ms, and the number of poll intervals
\* that fit a window, rounded up
WindowMs == WaitTimeSeconds(waitArg) * MsPerSecond

MaxIterations == Ceil(WindowMs, PollIntervalMs)

\* C23: whatever the number of pending endpoints, the polling loop starts at
\* most ceil(D / P) iterations (a sleep of P ms followed by one round of
\* health fetches) for a deadline window of D ms: every iteration started
\* so far has taken at least P ms since polling started, and a run that
\* stops with endpoints still pending has reached the deadline.
IterationsBounded ==
  WaitTool =>
    /\ ticks <= MaxIterations
    /\ wpc = "sleep" => (ticks - 1) * PollIntervalMs <= now - startTime
    /\ wpc = "fetch" => ticks * PollIntervalMs <= now - startTime
    /\ (ReturnedAggregate /\ Len(pending) > 0) =>
         (now >= endTime /\ ticks * PollIntervalMs <= now - startTime)

\* a run that timed out after exactly ceil(D / P) iterations, D not a
\* multiple of P, with two endpoints pending
IterationsBoundedWitness ==
  /\ ReturnedAggregate
  /\ Len(ret.still_pending) = 2
  /\ now >= endTime
  /\ WindowMs % PollIntervalMs # 0
  /\ ticks = MaxIterations

\* C24: the deadline is fixed once, by the step in which the restart batch
\* settles with at least one success: polling starts at that time, with one
\* result per target, and the deadline is that time plus waitTimeSeconds,
\* whatever time baseline capture and the batch have taken.  No later step
\* changes startTime or endTime.  A rejected health fetch (a per-call
\* timeout is one) ends the loop only when the deadline has been reached,
\* and a failed restart does not keep the loop from being entered while
\* another restart succeeded.
DeadlineFixedOnce ==
  /\ [][(wpc = "exec" /\ WaitTool /\ SucceededAt' # {}) =>
          /\ wpc' = "sleep"
          /\ Len(restartResults') = Len(hosts)
          /\ startTime' = now'
          /\ now' >= now
          /\ endTime' = startTime' + WindowMs]_vars
  /\ [][(wpc \in {"sleep", "fetch", "returned"}) =>
          /\ startTime' = startTime
          /\ endTime' = endTime]_vars
  /\ [][(wpc = "fetch" /\ hostInfo' = FetchError /\ wpc' = "returned") =>
          now' >= endTime]_vars

\* baseline capture and the batch took time, one restart failed, the
\* first poll fetch was rejected, and the loop is in its second iteration
\* with the full window counted from the start of polling
DeadlineFixedOnceWitness ==
  /\ wpc = "sleep"
  /\ ticks = 2
  /\ startTime > 0
  /\ endTime = startTime + WindowMs
  /\ FailedAt # {}
  /\ hostInfo = FetchError
  /\ "baseline" \in contacted

\* C25 as stated: within a tick no endpoint leaves pending while a health
\* fetch of that tick is still to come, removals being applied after the
\* last fetch of the tick has been collected.
RemovalsAfterAllFetches ==
  [][(Entered /\ pending' # pending) => wpc' # "fetch"]_vars

\* C25, amended: within a tick the fetches are awaited one at a time, in
\* the order of the snapshot taken at the start of the tick, and pending is
\* written only by the step that handles the response for scan[si]: it
\* removes that endpoint, and no other, before the next fetch of the tick is
\* issued.  An endpoint whose fetch of this tick is outstanding or still to
\* come is in pending, and the snapshot does not change during the tick.
RemovalsFollowOwnFetch ==
  /\ [][(Entered /\ pending' # pending) =>
          /\ wpc = "fetch"
          /\ hostInfo'.kind = "ok"
          /\ Range(pending') = Range(pending) \ {scan[si]}
          /\ Len(pending') = Len(pending) - 1
          /\ reregistered' = Append(reregistered, scan[si])
          /\ si' > si]_vars
  /\ [][(wpc = "fetch") => scan' = scan]_vars
  /\ [](wpc = "fetch" =>
          /\ si \in DOMAIN scan
          /\ \A k \in si..Len(scan) : scan[k] \in Range(pending)
          /\ \A k \in 1..(si - 1) :
               scan[k] \in Range(pending) \cup Range(reregistered))

\* the first endpoint of the tick has been removed and the fetch of the
\* second one is outstanding
RemovalsFollowOwnFetchWitness ==
  /\ wpc = "fetch"
  /\ ticks = 1
  /\ Len(scan) = 2
  /\ si = 2
  /\ reregistered = <<scan[1]>>
  /\ pending = <<scan[2]>>

\* C27: while the loop runs and when it has returned, pending and
\* re-registered are disjoint, re-registered holds no endpoint twice, and
\* together they are the endpoints whose restart succeeded; in the
\* aggregate the re-registered count plus the number of still-pending
\* endpoints is the reported restart_succeeded count, for every target list.
SucceededPartitioned ==
  (Entered \/ ReturnedAggregate) =>
    /\ Range(pending) \cap Range(reregistered) = {}
    /\ Cardinality(Range(reregistered)) = Len(reregistered)
    /\ Range(pending) \cup Range(reregistered) = RestartSucceeded
    /\ ReturnedAggregate =>
         ret.reregistered + Len(ret.still_pending) = ret.restart_succeeded

\* C28: when the restart batch has settled without a single success, the
\* restart-and-wait run has returned, in the step in which the batch
\* settled, the failure summary with the formatted restart results and
\* nothing else; it has not slept, has fetched no health snapshot after the
\* restart, and has created neither a deadline nor pending or re-registered
\* state.
NoSuccessReturnsEarly ==
  /\ [][(wpc = "exec" /\ WaitTool /\ SucceededAt' = {}) =>
          wpc' = "returned"]_vars
  /\ []((WaitTool /\ Len(restartResults) > 0 /\ SucceededAt = {}) =>
          /\ wpc = "returned"
          /\ DOMAIN ret = {"kind", "summary", "restart_results"}
          /\ ret.restart_results = FormatResults(restartResults)
          /\ ret.restart_results.total = Len(hosts)
          /\ ret.restart_results.failed = Len(hosts)
          /\ "poll" \notin contacted
          /\ ticks = 0
          /\ pending = << >> /\ reregistered = << >> /\ scan = << >>
          /\ startTime = 0 /\ endTime = 0)

\* both restarts of a two-target run failed after the baselines were taken
NoSuccessReturnsEarlyWitness ==
  /\ WaitTool
  /\ wpc = "returned"
  /\ Len(restartResults) = 2
  /\ SucceededAt = {}
  /\ DOMAIN beforeHeartbeats = Range(hosts)
  /\ "summary" \in DOMAIN ret

\* the target pods without an entry in the pod-to-hostname map, once
\* getPodHostnameMap() has settled
Unmapped ==
  IF backend = "k8s" /\ WaitTool /\ contacted \cap {"baseline", "exec"} # {}
  THEN Range(hosts) \ hostnameMap
  ELSE {}

\* C29: in the K8s restart-and-wait a target pod without an entry in the
\* pod-to-hostname map has no baseline, is never the endpoint of a baseline
\* or poll fetch, and never enters re-registered.  If its restart succeeded
\* it is in pending as long as the loop runs, and the run returns the
\* aggregate only with the deadline reached, the pod in still_pending and
\* fewer re-registered endpoints than successful restarts.
UnmappedStaysPending ==
  \A h \in Unmapped :
    /\ h \notin DOMAIN beforeHeartbeats
    /\ wpc = "baseline" => hosts[bi] # h
    /\ wpc = "fetch" => scan[si] # h
    /\ h \notin Range(reregistered)
    /\ (Entered /\ h \in RestartSucceeded) => h \in Range(pending)
    /\ (ReturnedAggregate /\ h \in RestartSucceeded) =>
         /\ h \in Range(ret.still_pending)
         /\ now >= endTime
         /\ ret.reregistered < ret.restart_succeeded

\* of two restarted pods the one with a hostname re-registered, the other
\* one was waited for until the deadline
UnmappedStaysPendingWitness ==
  /\ ReturnedAggregate
  /\ Len(hosts) = 2
  /\ hosts[1] \in Unmapped
  /\ hosts[2] \notin Unmapped
  /\ ret.still_pending = <<hosts[1]>>
  /\ ret.reregistered_hosts = <<hosts[2]>>
  /\ ticks = MaxIterations

\* every fetch of the loop so far has settled in no time: the clock has
\* moved by the sleeps only
InstantFetches == now - startTime = ticks * PollIntervalMs

BothInit == Init \/ WaitInit

BothNext ==
  \/ tool = "none" /\ Next
  \/ tool # "none" /\ WaitNext

BothSpec == BothInit /\ [][BothNext]_vars

\* every target pod has an entry in the pod-to-hostname map
AllResolved == backend = "k8s" => Range(hosts) \subseteq hostnameMap

\* the targets at the positions whose restart result has success = flag
NamesWhere(list, rs, flag) ==
  LET ks == SelectSeq([k \in DOMAIN list |-> k],
                      LAMBDA k : rs[k].success = flag)
  IN  [j \in DOMAIN ks |-> list[ks[j]]]

\* an observation that re-registers an endpoint with baseline old
Observed(resp, old) ==
  resp.kind = "ok" /\ resp.hb > old /\ resp.status = "HEALTHY"

\* the batch runner: windows and result list as a function of the endpoint
\* list, the concurrency and the outcome of each call
RunnerAsStated ==
  LET c == Concurrency(optConcurrency) IN
  /\ \A w \in DOMAIN windows :
       windows[w] = SubSeq(hosts, (w - 1) * c + 1, Min(w * c, Len(hosts)))
  /\ \A j \in DOMAIN results : results[j] = calls[j].result
  /\ pc = "done" =>
       (Len(windows) = Ceil(Len(hosts), c) /\ Len(results) = Len(hosts))

\* one step of the restart-and-wait loop: the next baselines, pending,
\* re-registered and position as a function of the current ones, the
\* restart results and the observation the step handles
TrackerAsStated ==
  /\ (wpc \in {"cluster", "hostmap"} /\ wpc' \in {"baseline", "exec"}) =>
       (wpc' = "baseline" /\ bi' = 1 /\ beforeHeartbeats' = << >>)
  /\ wpc = "baseline" =>
       /\ beforeHeartbeats' =
            Put(beforeHeartbeats, hosts[bi],
                IF hostInfo'.kind = "ok" /\ hostInfo'.hb # Null
                THEN hostInfo'.hb ELSE 0)
       /\ IF bi < Len(hosts)
          THEN wpc' = "baseline" /\ bi' = bi + 1
          ELSE wpc' = "exec"
  /\ wpc = "exec" =>
       /\ Len(restartResults') = Len(hosts)
       /\ restartedHosts' = NamesWhere(hosts, restartResults', TRUE)
       /\ Len(failedRestarts') = Len(NamesWhere(hosts, restartResults', FALSE))
       /\ IF restartedHosts' = << >>
          THEN wpc' = "returned" /\ pending' = << >>
          ELSE /\ wpc' = "sleep"
               /\ pending' = Dedupe(restartedHosts')
               /\ reregistered' = << >>
  /\ wpc = "sleep" =>
       /\ scan' = pending /\ si' = 1 /\ wpc' = "fetch"
       /\ pending' = pending /\ reregistered' = reregistered
  /\ wpc = "fetch" =>
       LET h == scan[si]
           conv == Observed(hostInfo', Lookup(beforeHeartbeats, h))
       IN  /\ pending' = IF conv THEN Delete(pending, h) ELSE pending
           /\ reregistered' =
                IF conv THEN Append(reregistered, h) ELSE reregistered
           /\ IF si < Len(scan)
              THEN wpc' = "fetch" /\ si' = si + 1
              ELSE wpc' = IF Len(pending') > 0 /\ now' < endTime
                          THEN "sleep" ELSE "returned"

====
